---- MODULE Spec2Model ----
(***************************************************************************)
(* Hook runner (HookRunner.emit / emitToolCall / emitContext): dispatch of *)
(* one event to the handlers the loaded hooks registered for its kind,     *)
(* with the per-handler timeout race, the error listeners and the          *)
(* short-circuit rules of each protocol.                                   *)
(*                                                                         *)
(* Branch summarization (collectEntriesForBranchSummary and                *)
(* prepareBranchEntries): the entries left behind when the session moves   *)
(* from one leaf of its tree to another entry, and the messages of those   *)
(* entries admitted under a token budget. Both are pure functions: their   *)
(* specifications draw the arguments in the initial state and apply the    *)
(* function in one step.                                                   *)
(*                                                                         *)
(* A step of the model is one run of the JavaScript event loop: the code   *)
(* between two awaits runs without interleaving, so each action covers     *)
(* everything from the settling of the awaited promise up to the next      *)
(* await (the invocation of the next handler) or the return of the call.   *)
(***************************************************************************)
EXTENDS Integers, Sequences, FiniteSets, TLC

\* ------------------------------------------------------------------ bounds
NumHooks == 2            \* hooks handed to the constructor
MaxHandlers == 2         \* handlers registered in total, over all hooks and kinds
NumListeners == 1        \* distinct error-listener functions of the host
MaxEntries == 4          \* entries of the session tree
MaxBranch == 3           \* entries handed to prepareBranchEntries
LargeTokens == 9         \* token estimate of a long message (a short one: 1)
MaxBudget == 10          \* largest tokenBudget
MaxCalls == 3            \* tool calls of an assistant message
SmallWindow == 20        \* context window of a small model

\* --------------------------------------------------------------- constants
DEFAULT_TIMEOUT == 30000

\* ------------------------------------------------------------------ values
\* An optional value: <<>> is undefined / absent, <<x>> is the value x.
None == <<>>
Some(x) == <<x>>
Truthy(o) == o # None

Kinds == {"session", "tool_result", "tool_call", "context", "turn_start"}
EmitKinds == {"session", "tool_result", "turn_start"}
Reasons == {"before_compact", "start"}
NoReason == "none"

HookIds == 1..NumHooks
Listeners == 1..NumListeners
ManyListeners == 1..(NumListeners + 1)
\* AppMessage[] values: the empty array (truthy in JavaScript) and another.
MessageLists == {<<>>, <<"m">>}

VARIABLES
    hooks,            \* this.hooks: per hook (load order) the handlers map, kind -> number of handlers
    timeout,          \* this.timeout
    uiContext,        \* this.uiContext
    hasUI,            \* this.hasUI
    errorListeners,   \* this.errorListeners: a Set, kept in insertion order
    pc,               \* "idle" | "await" | "done": where the one emission call stands
    call,             \* the emission call: protocol, event type, reason, input messages
    ctx,              \* `const ctx` of the emission
    hookIdx,          \* position of `for (const hook of this.hooks)`
    handlerIdx,       \* position of `for (const handler of handlers)`
    result,           \* `let result` of emit / emitToolCall
    currentMessages,  \* `let currentMessages` of emitContext
    modified,         \* `let modified` of emitContext
    inv,              \* the handler invocations of this call, in the order made
    reports,          \* the emitError calls of this call, in the order made
    outcome,          \* how the call ended: pending, returned a value, or threw
    session,          \* the session tree: the entries by id (ReadonlySessionManager)
    collected,        \* a call of collectEntriesForBranchSummary: arguments, then result
    prepared,         \* a call of prepareBranchEntries: arguments, then result
    generated         \* a call of generateBranchSummary: arguments, position, result

vars == <<hooks, timeout, uiContext, hasUI, errorListeners, pc, call, ctx,
          hookIdx, handlerIdx, result,
          currentMessages, modified, inv, reports, outcome,
          session, collected, prepared, generated>>

runner == <<hooks, timeout, uiContext, hasUI>>
summarizer == <<session, collected, prepared, generated>>
locals == <<call, ctx, hookIdx, handlerIdx, result, currentMessages, modified>>

\* ----------------------------------------------------------- construction
\* The hook loader hands the constructor the loaded hooks; each holds
\* handlers: Map<kind, handler[]>. A hook set is given by the registrations
\* made while loading: at most MaxHandlers pairs <<hook, kind>>.
Registrations(kinds) ==
    UNION {[1..n -> HookIds \X kinds] : n \in 0..MaxHandlers}

CountIn(regs, h, k) == Cardinality({j \in DOMAIN regs : regs[j] = <<h, k>>})

HooksOf(regs) == [h \in HookIds |-> [k \in Kinds |-> CountIn(regs, h, k)]]

HookSets(kinds) == {HooksOf(regs) : regs \in Registrations(kinds)}

\* hook.path
HookPath(h) == h

\* ------------------------------------------------------------- dispatch
\* hook.handlers.get(kind), as the number of handlers (absent and empty alike)
Handlers(h, kind) == hooks[h][kind]

Min(S) == CHOOSE x \in S : \A y \in S : x <= y

Max(S) == CHOOSE x \in S : \A y \in S : x >= y

NoHandler == <<0, 0>>

\* Mutant of NextHandler: the hooks are visited last loaded first.
NextHandlerLastHookFirst(kind, h, i) ==
    IF h >= 1 /\ i < hooks[h][kind]
    THEN <<h, i + 1>>
    ELSE LET top == IF h = 0 THEN NumHooks ELSE h - 1
             earlier == {g \in 1..top : hooks[g][kind] > 0}
         IN  IF earlier = {} THEN <<0, 0>> ELSE <<Max(earlier), 1>>

\* Mutant of NextHandler: `break` instead of `continue` at a hook that has
\* no handler of the kind.
NextHandlerStopsAtGap(kind, h, i) ==
    IF h >= 1 /\ i < hooks[h][kind]
    THEN <<h, i + 1>>
    ELSE IF h + 1 <= NumHooks /\ hooks[h + 1][kind] > 0
         THEN <<h + 1, 1>>
         ELSE <<0, 0>>

\* The two nested loops: the handler visited after handler i of hook h
\* (<<0, 0>> to start), or NoHandler when both loops are exhausted.
NextHandler(kind, h, i) ==
    IF h >= 1 /\ i < Handlers(h, kind)
    THEN <<h, i + 1>>
    ELSE LET later == {g \in (h + 1)..NumHooks : Handlers(g, kind) > 0}
         IN  IF later = {} THEN NoHandler ELSE <<Min(later), 1>>

\* Mutant of IsBeforeCompact: the reason of the session event is not looked at.
IsAnySession(c) == c.type = "session"

IsBeforeCompact(c) == c.type = "session" /\ c.reason = "before_compact"

\* Mutant of TimerCreated: emitToolCall races its handlers as emit does.
TimerCreatedAsEmit(c) ==
    CASE c.proto = "emit" -> ~IsBeforeCompact(c)
      [] c.proto = "emitToolCall" -> ~IsBeforeCompact(c)
      [] c.proto = "emitContext" -> TRUE

\* Mutant of TimerCreated: no protocol races its handlers.
TimerCreatedNever(c) == FALSE

\* Mutant of TimerCreated: every protocol races its handlers.
TimerCreatedAlways(c) == TRUE

\* Whether the invocation is raced against createTimeout(this.timeout).
TimerCreated(c) ==
    CASE c.proto = "emit" -> ~IsBeforeCompact(c)
      [] c.proto = "emitToolCall" -> FALSE
      [] c.proto = "emitContext" -> TRUE

\* Mutant of Catches: emitToolCall isolates its handlers like the others.
CatchesAll(c) == TRUE

\* Whether the invocation sits in a try / catch that reports to emitError.
Catches(c) ==
    CASE c.proto = "emit" -> TRUE
      [] c.proto = "emitToolCall" -> FALSE
      [] c.proto = "emitContext" -> TRUE

\* Mutant of TimeoutMessage: the message cites the default timeout, whatever
\* the runner was constructed with.
TimeoutMessageDefault(ms) == <<"Hook timed out after ", DEFAULT_TIMEOUT, "ms">>

\* `Hook timed out after ${ms}ms`
TimeoutMessage(ms) == <<"Hook timed out after ", ms, "ms">>

\* The message of whatever handler i of hook h throws.
HandlerMessage(h, i) == <<"handler error", h, i, "">>

ListenerMessage(l) == <<"listener error", l>>

\* What handler `by` may resolve to for this call.
HandlerResults(c, by) ==
    {None} \cup
    CASE c.proto = "emit" ->
            {Some([by |-> by, cancel |-> b, block |-> FALSE, messages |-> None]) :
                b \in BOOLEAN}
      [] c.proto = "emitToolCall" ->
            {Some([by |-> by, cancel |-> FALSE, block |-> b, messages |-> None]) :
                b \in BOOLEAN}
      [] c.proto = "emitContext" ->
            {Some([by |-> by, cancel |-> FALSE, block |-> FALSE, messages |-> m]) :
                m \in {None} \cup {Some(l) : l \in MessageLists}}

\* Mutant of Captured: emit keeps the first result instead of the last.
CapturedFirst(c, res, r) ==
    CASE c.proto = "emit" ->
            IF c.type \in {"session", "tool_result"} /\ Truthy(r) /\ ~Truthy(res)
            THEN r
            ELSE res
      [] c.proto = "emitToolCall" -> IF Truthy(r) THEN r ELSE res
      [] c.proto = "emitContext" -> res

\* `result` after a handler resolved to r.
Captured(c, res, r) ==
    CASE c.proto = "emit" ->
            IF c.type \in {"session", "tool_result"} /\ Truthy(r) THEN r ELSE res
      [] c.proto = "emitToolCall" -> IF Truthy(r) THEN r ELSE res
      [] c.proto = "emitContext" -> res

\* Mutant of ShortCircuits: emit forgets the cancel flag.
ShortCircuitsBlockOnly(c, r) ==
    c.proto = "emitToolCall" /\ Truthy(r) /\ r[1].block

\* Mutant of ShortCircuits: emitToolCall forgets the block flag.
ShortCircuitsCancelOnly(c, r) ==
    c.proto = "emit" /\ c.type = "session" /\ Truthy(r) /\ r[1].cancel

\* Whether the result r ends the dispatch at once.
ShortCircuits(c, r) ==
    CASE c.proto = "emit" -> c.type = "session" /\ Truthy(r) /\ r[1].cancel
      [] c.proto = "emitToolCall" -> Truthy(r) /\ r[1].block
      [] c.proto = "emitContext" -> FALSE

\* Whether r replaces the chained messages of emitContext.
Replaces(c, r) == c.proto = "emitContext" /\ Truthy(r) /\ Truthy(r[1].messages)

\* Mutant of Chained: every handler is given the input messages.
ChainedNever(c, msgs, r) == msgs

Chained(c, msgs, r) == IF Replaces(c, r) THEN r[1].messages[1] ELSE msgs

\* Mutant of ReturnValue: emitContext returns the messages, modified or not.
ReturnValueAlways(c, res, msgs, mod) ==
    IF c.proto = "emitContext" THEN Some(msgs) ELSE res

\* The value the call returns when the loops are exhausted.
ReturnValue(c, res, msgs, mod) ==
    IF c.proto = "emitContext"
    THEN (IF mod THEN Some(msgs) ELSE None)
    ELSE res

Returned(v) == [kind |-> "returned", value |-> v, error |-> <<>>]
Threw(e) == [kind |-> "threw", value |-> None, error |-> e]
Pending == [kind |-> "pending", value |-> None, error |-> <<>>]

\* noOpUIContext, by what select, confirm and input resolve to.
noOpUIContext == [select |-> None, confirm |-> FALSE, input |-> None]

\* The UI context of a mode with a UI.
InteractiveUI == [select |-> Some("option"), confirm |-> TRUE, input |-> Some("text")]

UIContexts == {noOpUIContext, InteractiveUI}

NoContext == [ui |-> noOpUIContext, hasUI |-> FALSE]

\* this.createContext()
CreateContext == [ui |-> uiContext, hasUI |-> hasUI]

\* Mutant of Context: the context is built anew for each handler.
ContextPerHandler == CreateContext

\* `ctx` of the emission: built by its first statement, before the loops.
Context == IF pc = "idle" THEN CreateContext ELSE ctx

\* The invocation record of handler pos, invoked with the messages msgs.
Invocation(c, pos, msgs) ==
    [hook |-> pos[1], idx |-> pos[2], timed |-> TimerCreated(c), st |-> "pending",
     timer |-> TimerCreated(c), running |-> TRUE, input |-> msgs, out |-> None,
     ctx |-> Context]

\* Mutant of Notified: emitError stops after the first listener.
NotifiedFirst(listeners, thrower) ==
    IF listeners = <<>> THEN <<>> ELSE SubSeq(listeners, 1, 1)

\* emitError: the listeners notified, in the Set's order, when the
\* thrower-th of them throws (0: none throws).
Notified(listeners, thrower) ==
    IF thrower = 0 THEN listeners ELSE SubSeq(listeners, 1, thrower)

Report(c, n, h, message, thrower) ==
    [n |-> n,
     error |-> [hookPath |-> HookPath(h), event |-> c.type, error |-> message],
     subscribed |-> errorListeners,
     to |-> Notified(errorListeners, thrower),
     threw |-> thrower]

\* The loop moves on from handler <<h, i>>: the next handler is invoked and
\* awaited, or the call returns.
Dispatch(c, h, i, res, msgs, mod, log) ==
    LET nxt == NextHandler(c.type, h, i) IN
    /\ result' = res
    /\ currentMessages' = msgs
    /\ modified' = mod
    /\ IF nxt = NoHandler
       THEN /\ pc' = "done"
            /\ outcome' = Returned(ReturnValue(c, res, msgs, mod))
            /\ inv' = log
            /\ UNCHANGED <<hookIdx, handlerIdx>>
       ELSE /\ pc' = "await"
            /\ outcome' = Pending
            /\ hookIdx' = nxt[1]
            /\ handlerIdx' = nxt[2]
            /\ inv' = Append(log, Invocation(c, nxt, msgs))

Quiescent == \A n \in DOMAIN inv : ~inv[n].timer /\ ~inv[n].running

\* The calls made on the runner: the protocol, the event's type and reason,
\* and the messages argument of emitContext.
Calls ==
    {[proto |-> "emit", type |-> "session", reason |-> r, messages |-> <<>>] :
        r \in Reasons}
    \cup {[proto |-> "emit", type |-> t, reason |-> NoReason, messages |-> <<>>] :
            t \in EmitKinds \ {"session"}}
    \cup {[proto |-> "emitToolCall", type |-> "tool_call", reason |-> NoReason,
           messages |-> <<>>]}
    \cup {[proto |-> "emitContext", type |-> "context", reason |-> NoReason,
           messages |-> m] : m \in MessageLists}

NoCall == [proto |-> "none", type |-> "none", reason |-> NoReason, messages |-> <<>>]

\* ------------------------------------------------------- session entries
\* An absent id (null) and an id no entry of the session has.
NullId == 0
MissingId == MaxEntries + 1

SummaryTypes == {"compaction", "branch_summary"}
SilentTypes == {"thinking_level_change", "model_change", "custom", "label"}

Range(s) == {s[j] : j \in DOMAIN s}

\* entries.reverse()
Reverse(s) == [j \in 1..Len(s) |-> s[Len(s) + 1 - j]]

\* The session trees: entries 1..n in the order appended, each with the id
\* of its parent: none (a root), an earlier entry, or an id that is missing.
\* At most one link is broken (a second root, or a missing parent), and the
\* entries are messages, but for at most one summary.
ParentIds(id) == {NullId, MissingId} \cup 1..(id - 1)

Broken(parents, id) ==
    \/ parents[id] = MissingId
    \/ id > 1 /\ parents[id] = NullId

RECURSIVE ParentLinks(_)
ParentLinks(n) ==
    IF n = 0
    THEN {<<>>}
    ELSE {Append(f, parent) : f \in ParentLinks(n - 1), parent \in ParentIds(n)}

ParentMaps(n) ==
    {f \in ParentLinks(n) : Cardinality({id \in 1..n : Broken(f, id)}) <= 1}

TypeMaps(n) ==
    {[id \in 1..n |-> "message"]}
    \cup {[id \in 1..n |-> IF id = k THEN t ELSE "message"] :
            k \in 1..n, t \in SummaryTypes}

Trees ==
    UNION {{[id \in 1..n |->
                [id |-> id, parentId |-> parents[id], type |-> types[id]]] :
                parents \in ParentMaps(n), types \in TypeMaps(n)} :
           n \in 1..MaxEntries}

\* session.getEntry(id)
GetEntry(id) == IF id \in DOMAIN session THEN Some(session[id]) ELSE None

\* session.getPath(id): the entries from the given one to the root.
RECURSIVE GetPath(_)
GetPath(id) ==
    IF GetEntry(id) = None
    THEN <<>>
    ELSE <<session[id]>> \o GetPath(session[id].parentId)

\* ------------------------------------------ collectEntriesForBranchSummary
\* Mutant of IsAbsent: the early return for a first navigation is gone.
IsAbsentNever(id) == FALSE

\* `!oldLeafId`
IsAbsent(id) == id = NullId

\* Mutant of FirstCommon: the scan does not break at the first match.
LastCommon(path, ids) ==
    LET hits == {j \in DOMAIN path : path[j].id \in ids} IN
    IF hits = {} THEN NullId ELSE path[Max(hits)].id

\* The id of the first entry of `path` that is in `ids`, or null.
FirstCommon(path, ids) ==
    LET hits == {j \in DOMAIN path : path[j].id \in ids} IN
    IF hits = {} THEN NullId ELSE path[Min(hits)].id

\* Mutant of Walk: an entry that is missing discards what was collected.
RECURSIVE WalkStrict(_, _)
WalkStrict(current, stop) ==
    IF current = NullId \/ current = stop
    THEN [entries |-> <<>>, lookups |-> 0, broken |-> FALSE]
    ELSE IF GetEntry(current) = None
         THEN [entries |-> <<>>, lookups |-> 1, broken |-> TRUE]
         ELSE LET rest == WalkStrict(session[current].parentId, stop) IN
              [entries |-> IF rest.broken THEN <<>>
                           ELSE <<session[current]>> \o rest.entries,
               lookups |-> rest.lookups + 1,
               broken |-> rest.broken]

\* The walk from `current` up the parent links to `stop`: the entries
\* pushed, in the order visited, and the number of getEntry calls made.
RECURSIVE Walk(_, _)
Walk(current, stop) ==
    IF current = NullId \/ current = stop
    THEN [entries |-> <<>>, lookups |-> 0]
    ELSE IF GetEntry(current) = None
         THEN [entries |-> <<>>, lookups |-> 1]
         ELSE LET rest == Walk(session[current].parentId, stop) IN
              [entries |-> <<session[current]>> \o rest.entries,
               lookups |-> rest.lookups + 1]

\* Mutant of Chronological: entries.reverse() is left out.
AsWalked(s) == s

Chronological(s) == Reverse(s)

\* The call's result, with the number of calls it made on the session.
CollectEntriesForBranchSummary(oldLeafId, targetId) ==
    IF IsAbsent(oldLeafId)
    THEN [entries |-> <<>>, commonAncestorId |-> NullId, queries |-> 0]
    ELSE LET oldPath == {e.id : e \in Range(GetPath(oldLeafId))}
             targetPath == GetPath(targetId)
             commonAncestorId == FirstCommon(targetPath, oldPath)
             walk == Walk(oldLeafId, commonAncestorId)
         IN  [entries |-> Chronological(walk.entries),
              commonAncestorId |-> commonAncestorId,
              queries |-> 2 + walk.lookups]

\* ------------------------------------------------- prepareBranchEntries
\* A content block of an assistant message: a tool call with its name and
\* the path argument (NoPath: none, or not a string).
NoPath == "none"

NoFileOps == [read |-> {}, written |-> {}, edited |-> {}]

\* createHookMessage, createBranchSummaryMessage,
\* createCompactionSummaryMessage: the role of the message built.
CreatedRole(type) ==
    CASE type = "custom_message" -> "hookMessage"
      [] type = "branch_summary" -> "branchSummary"
      [] type = "compaction" -> "compactionSummary"

MessageOf(entry, role) ==
    Some([role |-> role, toolCalls |-> entry.toolCalls,
          tokens |-> entry.tokens, entry |-> entry.id])

\* Mutant of GetMessageFromEntry: a tool result is a message like another.
GetMessageWithToolResults(entry) ==
    CASE entry.type = "message" -> MessageOf(entry, entry.role)
      [] entry.type \in {"custom_message", "branch_summary", "compaction"} ->
            MessageOf(entry, CreatedRole(entry.type))
      [] entry.type \in SilentTypes -> None

\* getMessageFromEntry(entry)
GetMessageFromEntry(entry) ==
    CASE entry.type = "message" ->
            IF entry.role = "toolResult" THEN None ELSE MessageOf(entry, entry.role)
      [] entry.type \in {"custom_message", "branch_summary", "compaction"} ->
            MessageOf(entry, CreatedRole(entry.type))
      [] entry.type \in SilentTypes -> None

\* estimateTokens(message)
EstimateTokens(message) == message.tokens

PathsOf(message, name) ==
    {b.path : b \in {c \in Range(message.toolCalls) :
                        c.name = name /\ c.path # NoPath}}

\* extractFileOpsFromMessage(message, fileOps)
ExtractFileOpsFromMessage(message, fileOps) ==
    IF message.role # "assistant"
    THEN fileOps
    ELSE [read |-> fileOps.read \cup PathsOf(message, "read"),
          written |-> fileOps.written \cup PathsOf(message, "write"),
          edited |-> fileOps.edited \cup PathsOf(message, "edit")]

\* Mutant of OverBudget: a budget below 0 is a limit.
OverBudgetUnlessZero(tokenBudget, totalTokens, tokens) ==
    tokenBudget # 0 /\ totalTokens + tokens > tokenBudget

\* Mutant of OverBudget: a budget of 0 is a limit like any other.
OverBudgetEvenZero(tokenBudget, totalTokens, tokens) ==
    totalTokens + tokens > tokenBudget

\* `tokenBudget > 0 && totalTokens + tokens > tokenBudget`
OverBudget(tokenBudget, totalTokens, tokens) ==
    tokenBudget > 0 /\ totalTokens + tokens > tokenBudget

\* Mutant of AdmitsSummary: a summary is admitted over budget whatever has
\* been accumulated.
AdmitsSummaryAlways(entry, tokenBudget, totalTokens) ==
    entry.type \in {"compaction", "branch_summary"}

\* Whether the entry over budget is admitted all the same:
\* `totalTokens < tokenBudget * 0.9`, in tenths.
AdmitsSummary(entry, tokenBudget, totalTokens) ==
    /\ entry.type \in {"compaction", "branch_summary"}
    /\ 10 * totalTokens < 9 * tokenBudget

\* Mutant of Unshift: messages.push(message).
Pushed(messages, message) == Append(messages, message)

\* messages.unshift(message)
Unshift(messages, message) == <<message>> \o messages

\* Mutant of ScanFrom: the file operations of a message are recorded when
\* the message is admitted.
RECURSIVE ScanAdmitted(_, _, _, _)
ScanAdmitted(entries, i, tokenBudget, acc) ==
    IF i < 1
    THEN acc
    ELSE LET entry == entries[i]
             message == GetMessageFromEntry(entry)
         IN  IF message = None
             THEN ScanAdmitted(entries, i - 1, tokenBudget, acc)
             ELSE LET fileOps == ExtractFileOpsFromMessage(message[1], acc.fileOps)
                      tokens == EstimateTokens(message[1])
                      admitted ==
                          [messages |-> Unshift(acc.messages, message[1]),
                           fileOps |-> fileOps,
                           totalTokens |-> acc.totalTokens + tokens]
                  IN  IF OverBudget(tokenBudget, acc.totalTokens, tokens)
                      THEN IF AdmitsSummary(entry, tokenBudget, acc.totalTokens)
                           THEN admitted
                           ELSE acc
                      ELSE ScanAdmitted(entries, i - 1, tokenBudget, admitted)

\* Mutant of ScanFrom: a message refused on budget is skipped and the loop
\* goes on to the older entries.
RECURSIVE ScanSkipping(_, _, _, _)
ScanSkipping(entries, i, tokenBudget, acc) ==
    IF i < 1
    THEN acc
    ELSE LET entry == entries[i]
             message == GetMessageFromEntry(entry)
         IN  IF message = None
             THEN ScanSkipping(entries, i - 1, tokenBudget, acc)
             ELSE LET fileOps == ExtractFileOpsFromMessage(message[1], acc.fileOps)
                      tokens == EstimateTokens(message[1])
                      admitted ==
                          [messages |-> Unshift(acc.messages, message[1]),
                           fileOps |-> fileOps,
                           totalTokens |-> acc.totalTokens + tokens]
                  IN  IF OverBudget(tokenBudget, acc.totalTokens, tokens)
                      THEN IF AdmitsSummary(entry, tokenBudget, acc.totalTokens)
                           THEN admitted
                           ELSE ScanSkipping(entries, i - 1, tokenBudget,
                                             [acc EXCEPT !.fileOps = fileOps])
                      ELSE ScanSkipping(entries, i - 1, tokenBudget, admitted)

\* The loop from entry i down to the first one.
RECURSIVE ScanFrom(_, _, _, _)
ScanFrom(entries, i, tokenBudget, acc) ==
    IF i < 1
    THEN acc
    ELSE LET entry == entries[i]
             message == GetMessageFromEntry(entry)
         IN  IF message = None
             THEN ScanFrom(entries, i - 1, tokenBudget, acc)
             ELSE LET fileOps == ExtractFileOpsFromMessage(message[1], acc.fileOps)
                      tokens == EstimateTokens(message[1])
                      admitted ==
                          [messages |-> Unshift(acc.messages, message[1]),
                           fileOps |-> fileOps,
                           totalTokens |-> acc.totalTokens + tokens]
                  IN  IF OverBudget(tokenBudget, acc.totalTokens, tokens)
                      THEN IF AdmitsSummary(entry, tokenBudget, acc.totalTokens)
                           THEN admitted
                           ELSE [acc EXCEPT !.fileOps = fileOps]
                      ELSE ScanFrom(entries, i - 1, tokenBudget, admitted)

PrepareBranchEntries(entries, tokenBudget) ==
    ScanFrom(entries, Len(entries), tokenBudget,
             [messages |-> <<>>, fileOps |-> NoFileOps, totalTokens |-> 0])

\* The entries a branch is made of, without their ids: user and assistant
\* messages and summaries, short or long, an assistant message with or
\* without a tool call, a tool result and a label.
TokenEstimates == {1, LargeTokens}

AssistantWith(toolCalls) ==
    [type |-> "message", role |-> "assistant", toolCalls |-> toolCalls, tokens |-> 1]

ToolCallLists == {<<>>, <<[name |-> "read", path |-> "a"]>>}

EntryShapes ==
    {[type |-> "message", role |-> "user", toolCalls |-> <<>>, tokens |-> t] :
        t \in TokenEstimates}
    \cup {[type |-> "message", role |-> "assistant", toolCalls |-> c, tokens |-> t] :
            c \in ToolCallLists, t \in TokenEstimates}
    \cup {[type |-> k, role |-> "none", toolCalls |-> <<>>, tokens |-> t] :
            k \in SummaryTypes, t \in TokenEstimates}
    \cup {[type |-> "message", role |-> "toolResult", toolCalls |-> <<>>, tokens |-> 1],
          [type |-> "label", role |-> "none", toolCalls |-> <<>>, tokens |-> 1]}

WithIds(shapes) ==
    [j \in 1..Len(shapes) |->
        [id |-> j, type |-> shapes[j].type, role |-> shapes[j].role,
         toolCalls |-> shapes[j].toolCalls, tokens |-> shapes[j].tokens]]

\* tokenBudget: below zero or zero (no limit), or a limit.
Budgets == (0 - 1)..MaxBudget

\* -------------------------------------------------- formatFileOperations
\* The paths, in the order Array.prototype.sort puts them.
Paths == <<"a.txt", "b.txt">>

\* [...set].sort()
SortPaths(S) == SelectSeq(Paths, LAMBDA p : p \in S)

\* Mutant of Modified: the written paths are left out.
ModifiedEditedOnly(fileOps) == fileOps.edited

\* new Set([...fileOps.edited, ...fileOps.written])
Modified(fileOps) == fileOps.edited \cup fileOps.written

\* Mutant of ReadOnly: the read paths are not filtered.
ReadOnlyUnfiltered(fileOps) == SortPaths(fileOps.read)

\* [...fileOps.read].filter((f) => !modified.has(f)).sort()
ReadOnly(fileOps) == SortPaths(fileOps.read \ Modified(fileOps))

\* The text appended to the summary, as the lines of its <read-files> and
\* <modified-files> sections; a section without lines is left out, and the
\* text is empty when both are.
FormatFileOperations(fileOps) ==
    [readFiles |-> ReadOnly(fileOps),
     modifiedFiles |-> SortPaths(Modified(fileOps))]

NoSections == [readFiles |-> <<>>, modifiedFiles |-> <<>>]

\* -------------------------------------------------- generateBranchSummary
DefaultReserveTokens == 16384
DefaultContextWindow == 128000
MaxResponseTokens == 2048

\* `reserveTokens = 16384` of the destructuring
ReserveOf(reserveTokens) ==
    IF reserveTokens = None THEN DefaultReserveTokens ELSE reserveTokens[1]

\* `model.contextWindow || 128000`
WindowOf(contextWindow) ==
    IF contextWindow = 0 THEN DefaultContextWindow ELSE contextWindow

TokenBudget(contextWindow, reserveTokens) ==
    WindowOf(contextWindow) - ReserveOf(reserveTokens)

\* A summary: the text of the response and the sections appended to it.
SummaryText(text, sections) == [text |-> text, sections |-> sections]

NoContentSummary == SummaryText("No content to summarize", NoSections)
NoSummaryGenerated == SummaryText("No summary generated", NoSections)

\* BranchSummaryResult: each field absent or set.
SummaryResult(s) == [summary |-> Some(s), aborted |-> None, error |-> None]
AbortedResult == [summary |-> None, aborted |-> Some(TRUE), error |-> None]
ErrorResult(message) == [summary |-> None, aborted |-> None, error |-> Some(message)]

\* What complete() may resolve to: a stop reason, the text of the content
\* blocks and the error message.
Responses ==
    {[stopReason |-> r, text |-> t, errorMessage |-> None] :
        r \in {"stop", "length"}, t \in {"", "recap"}}
    \cup {[stopReason |-> "aborted", text |-> "", errorMessage |-> None]}
    \cup {[stopReason |-> "error", text |-> "", errorMessage |-> m] :
            m \in {None, Some("overloaded")}}

\* Mutant of Fallible: a failed completion is treated as a summary.
FallibleNever(response) == FALSE

\* `response.stopReason === "error"`
Fallible(response) == response.stopReason = "error"

\* What generateBranchSummary returns once complete() has resolved.
ResultOf(response, fileOps) ==
    IF response.stopReason = "aborted"
    THEN AbortedResult
    ELSE IF Fallible(response)
         THEN ErrorResult(IF Truthy(response.errorMessage)
                          THEN response.errorMessage[1]
                          ELSE "Summarization failed")
         ELSE LET sections == FormatFileOperations(fileOps) IN
              IF response.text = "" /\ sections = NoSections
              THEN SummaryResult(NoSummaryGenerated)
              ELSE SummaryResult(SummaryText(response.text, sections))

\* Mutant of Summarizable: complete() is called whatever was admitted.
SummarizableAlways(messages) == TRUE

\* `messages.length === 0` does not hold
Summarizable(messages) == messages # <<>>

\* The call of complete(): the messages of the transcript and maxTokens.
Completion(messages) ==
    [transcript |-> [j \in DOMAIN messages |-> messages[j].entry],
     maxTokens |-> MaxResponseTokens]

\* --------------------------------------------------- summarizer: states
NoSession == <<>>

NotCollected ==
    [oldLeafId |-> NullId, targetId |-> NullId, done |-> FALSE,
     entries |-> <<>>, commonAncestorId |-> NullId, queries |-> 0]

NotPrepared ==
    [entries |-> <<>>, tokenBudget |-> 0, done |-> FALSE,
     messages |-> <<>>, fileOps |-> NoFileOps, totalTokens |-> 0]

NotGenerated ==
    [entries |-> <<>>, contextWindow |-> 0, reserveTokens |-> None, pc |-> "idle",
     messages |-> <<>>, fileOps |-> NoFileOps, calls |-> <<>>,
     response |-> None, result |-> None]

SummarizerIdle ==
    /\ session = NoSession
    /\ collected = NotCollected
    /\ prepared = NotPrepared
    /\ generated = NotGenerated

\* ---------------------------------------------------------------- actions
\* new HookRunner(hooks, cwd, sessionManager, modelRegistry, timeout): the runner as
\* constructed, over hooks that registered handlers of `kinds`, with one of
\* `timeouts` as the timeout argument.
InitRunner(kinds, timeouts) ==
    /\ hooks \in HookSets(kinds)
    /\ timeout \in timeouts
    /\ uiContext = noOpUIContext
    /\ hasUI = FALSE
    /\ ctx = NoContext
    /\ errorListeners = <<>>
    /\ pc = "idle"
    /\ call = NoCall
    /\ hookIdx = 0
    /\ handlerIdx = 0
    /\ result = None
    /\ currentMessages = <<>>
    /\ modified = FALSE
    /\ inv = <<>>
    /\ reports = <<>>
    /\ outcome = Pending

\* The runner constructed without a timeout argument.
InitOver(kinds) == InitRunner(kinds, {DEFAULT_TIMEOUT}) /\ SummarizerIdle

Init == InitOver(Kinds)

\* A call of emit(event), emitToolCall(event) or emitContext(messages), up
\* to its first await or its return.
Start(c) ==
    /\ pc = "idle"
    /\ call' = c
    /\ ctx' = CreateContext
    /\ reports' = <<>>
    /\ Dispatch(c, 0, 0, None, c.messages, FALSE, <<>>)
    /\ UNCHANGED <<runner, summarizer, errorListeners>>

Emit ==
    \E c \in Calls : c.proto = "emit" /\ Start(c)

EmitToolCall ==
    \E c \in Calls : c.proto = "emitToolCall" /\ Start(c)

EmitContext ==
    \E c \in Calls : c.proto = "emitContext" /\ Start(c)

Current == inv[Len(inv)]

Settle(log, n, st, timer, running, out) ==
    [log EXCEPT ![n] = [@ EXCEPT !.st = st, !.timer = timer,
                                 !.running = running, !.out = out]]

\* The awaited handler resolves; with a timer, it wins the race and
\* timeout.clear() runs.
HandlerReturns ==
    /\ pc = "await"
    /\ Current.st = "pending"
    /\ \E r \in HandlerResults(call, <<Current.hook, Current.idx>>) :
        LET log == Settle(inv, Len(inv), "returned", FALSE, FALSE, r)
            res == Captured(call, result, r)
            msgs == Chained(call, currentMessages, r)
            mod == modified \/ Replaces(call, r)
        IN  IF ShortCircuits(call, r)
            THEN /\ pc' = "done"
                 /\ outcome' = Returned(res)
                 /\ result' = res
                 /\ inv' = log
                 /\ UNCHANGED <<hookIdx, handlerIdx, currentMessages, modified>>
            ELSE Dispatch(call, hookIdx, handlerIdx, res, msgs, mod, log)
    /\ UNCHANGED <<runner, summarizer, errorListeners, call, ctx, reports>>

\* Mutant of Fails: what a listener throws is dropped, and the loop moves on.
FailsContinues(log, message) ==
    IF Catches(call)
    THEN \E thrower \in 0..Len(errorListeners) :
            /\ reports' = Append(reports,
                    Report(call, Len(inv), hookIdx, message, thrower))
            /\ Dispatch(call, hookIdx, handlerIdx, result,
                        currentMessages, modified, log)
    ELSE /\ pc' = "done"
         /\ outcome' = Threw(message)
         /\ inv' = log

\* The awaited promise rejected with `message`: the catch block reports it,
\* and the listeners run; or, without a catch, the call rejects.
Fails(log, message) ==
    IF Catches(call)
    THEN \E thrower \in 0..Len(errorListeners) :
            /\ reports' = Append(reports,
                    Report(call, Len(inv), hookIdx, message, thrower))
            /\ IF thrower = 0
               THEN Dispatch(call, hookIdx, handlerIdx, result,
                             currentMessages, modified, log)
               ELSE /\ pc' = "done"
                    /\ outcome' = Threw(ListenerMessage(errorListeners[thrower]))
                    /\ inv' = log
                    /\ UNCHANGED <<hookIdx, handlerIdx, result,
                                   currentMessages, modified>>
    ELSE /\ pc' = "done"
         /\ outcome' = Threw(message)
         /\ inv' = log
         /\ UNCHANGED <<hookIdx, handlerIdx, result, currentMessages,
                        modified, reports>>

\* The awaited handler throws or rejects. timeout.clear() is not reached.
HandlerThrows ==
    /\ pc = "await"
    /\ Current.st = "pending"
    /\ Fails(Settle(inv, Len(inv), "threw", Current.timer, FALSE, None),
             HandlerMessage(Current.hook, Current.idx))
    /\ UNCHANGED <<runner, summarizer, errorListeners, call, ctx>>

\* The timer of the awaited race fires first: the race rejects with the
\* timeout error, and the handler keeps running.
TimerFires ==
    /\ pc = "await"
    /\ Current.st = "pending"
    /\ Current.timer
    /\ Fails(Settle(inv, Len(inv), "timedout", FALSE, TRUE, None),
             TimeoutMessage(timeout))
    /\ UNCHANGED <<runner, summarizer, errorListeners, call, ctx>>

\* A timer whose race is already settled fires: nothing awaits it.
StaleTimerFires ==
    \E n \in DOMAIN inv :
        /\ inv[n].timer
        /\ inv[n].st # "pending"
        /\ inv' = [inv EXCEPT ![n].timer = FALSE]
        /\ UNCHANGED <<runner, summarizer, errorListeners, pc, locals, reports, outcome>>

\* A handler that lost the race settles: its outcome is dropped.
LateHandlerSettles ==
    \E n \in DOMAIN inv :
        /\ inv[n].st = "timedout"
        /\ inv[n].running
        /\ inv' = [inv EXCEPT ![n].running = FALSE]
        /\ UNCHANGED <<runner, summarizer, errorListeners, pc, locals, reports, outcome>>

Remove(s, x) == SelectSeq(s, LAMBDA y : y # x)

InSeq(s, x) == \E j \in DOMAIN s : s[j] = x

\* onError(listener): Set.add
Subscribe(l) ==
    /\ ~InSeq(errorListeners, l)
    /\ errorListeners' = Append(errorListeners, l)
    /\ UNCHANGED <<runner, summarizer, pc, locals, inv, reports, outcome>>

\* Mutant of Detach: the handle clears the Set.
DetachAll(l) ==
    /\ InSeq(errorListeners, l)
    /\ errorListeners' = <<>>
    /\ UNCHANGED <<runner, summarizer, pc, locals, inv, reports, outcome>>

\* The handle onError(listener) returned is called: Set.delete
Detach(l) ==
    /\ InSeq(errorListeners, l)
    /\ errorListeners' = Remove(errorListeners, l)
    /\ UNCHANGED <<runner, summarizer, pc, locals, inv, reports, outcome>>

\* The host subscribes and detaches between emissions.
OnError == \E l \in Listeners : pc = "idle" /\ Subscribe(l)

Unsubscribe == \E l \in Listeners : pc = "idle" /\ Detach(l)

\* The same, for a host with one listener more.
OnErrorMany == \E l \in ManyListeners : pc = "idle" /\ Subscribe(l)

UnsubscribeMany == \E l \in ManyListeners : pc = "idle" /\ Detach(l)

\* The caller has taken the settled promise's value or error, and nothing of
\* the call is left behind: the runner is ready for the next emission.
CallerResumes ==
    /\ pc = "done"
    /\ Quiescent
    /\ pc' = "idle"
    /\ call' = NoCall
    /\ ctx' = NoContext
    /\ hookIdx' = 0
    /\ handlerIdx' = 0
    /\ result' = None
    /\ currentMessages' = <<>>
    /\ modified' = FALSE
    /\ inv' = <<>>
    /\ reports' = <<>>
    /\ outcome' = Pending
    /\ UNCHANGED <<runner, summarizer, errorListeners>>

Next ==
    \/ Emit
    \/ EmitToolCall
    \/ EmitContext
    \/ HandlerReturns
    \/ HandlerThrows
    \/ TimerFires
    \/ StaleTimerFires
    \/ LateHandlerSettles
    \/ OnError
    \/ Unsubscribe
    \/ CallerResumes

Spec == Init /\ [][Next]_vars

\* The runner of a host with one listener more, over hooks that handle
\* session and context events.
ListenerKinds == {"session", "context"}

InitListeners == InitOver(ListenerKinds)

NextListeners ==
    \/ Emit
    \/ EmitContext
    \/ HandlerReturns
    \/ HandlerThrows
    \/ TimerFires
    \/ StaleTimerFires
    \/ LateHandlerSettles
    \/ OnErrorMany
    \/ UnsubscribeMany
    \/ CallerResumes

SpecListeners == InitListeners /\ [][NextListeners]_vars

\* The runner of a host with error listeners, over hooks that handle session
\* and context events, whose handlers may never settle; setTimeout calls
\* its callback in the end, unless the timer is cleared first.
InitLive == InitOver(ListenerKinds)

NextLive ==
    \/ Emit
    \/ EmitContext
    \/ HandlerReturns
    \/ HandlerThrows
    \/ TimerFires
    \/ StaleTimerFires
    \/ LateHandlerSettles
    \/ OnError
    \/ Unsubscribe
    \/ CallerResumes

TimersFire == WF_vars(TimerFires)

SpecLive == InitLive /\ [][NextLive]_vars /\ TimersFire

\* The host subscribes between emissions; the handles onError returned are
\* called then or while an emission awaits a handler.
Registers == OnErrorMany

HandleCalled == \E l \in ManyListeners : pc # "done" /\ Detach(l)

\* The runner of a host whose listeners come and go during the emissions,
\* over hooks that handle tool_result events.
SubscriptionKinds == {"tool_result"}

InitSubscriptions == InitOver(SubscriptionKinds)

NextSubscriptions ==
    \/ Emit
    \/ HandlerReturns
    \/ HandlerThrows
    \/ TimerFires
    \/ StaleTimerFires
    \/ LateHandlerSettles
    \/ Registers
    \/ HandleCalled
    \/ CallerResumes

SpecSubscriptions == InitSubscriptions /\ [][NextSubscriptions]_vars

\* The runner constructed with or without a timeout argument, over hooks
\* that handle tool_result and context events.
Timeouts == {DEFAULT_TIMEOUT, 5000}

TimeoutKinds == {"tool_result", "context"}

InitTimeout == InitRunner(TimeoutKinds, Timeouts) /\ SummarizerIdle

NextTimeout ==
    \/ Emit
    \/ EmitContext
    \/ HandlerReturns
    \/ HandlerThrows
    \/ TimerFires
    \/ StaleTimerFires
    \/ LateHandlerSettles
    \/ OnError
    \/ Unsubscribe
    \/ CallerResumes

SpecTimeout == InitTimeout /\ [][NextTimeout]_vars

\* setUIContext(uiContext, hasUI), at any time
SetUIContext ==
    /\ \E u \in UIContexts, h \in BOOLEAN :
        /\ uiContext' = u
        /\ hasUI' = h
    /\ UNCHANGED <<hooks, timeout, summarizer, errorListeners, pc, locals, inv,
                   reports, outcome>>

\* The runner of a mode that sets its UI context, over hooks that handle
\* turn_start, tool_call and context events.
UIKinds == {"turn_start", "tool_call", "context"}

InitUI == InitOver(UIKinds)

NextUI ==
    \/ Emit
    \/ EmitToolCall
    \/ EmitContext
    \/ HandlerReturns
    \/ HandlerThrows
    \/ TimerFires
    \/ StaleTimerFires
    \/ LateHandlerSettles
    \/ SetUIContext
    \/ CallerResumes

SpecUI == InitUI /\ [][NextUI]_vars

\* ------------------------------------------------- summarizer: actions
\* No hook is loaded.
NoKinds == {}

\* A session tree, and a navigation from oldLeafId (absent on the first
\* navigation) to an entry of the tree.
InitCollect ==
    /\ InitRunner(NoKinds, {DEFAULT_TIMEOUT})
    /\ session \in Trees
    /\ \E old \in {NullId} \cup DOMAIN session, target \in DOMAIN session :
        collected = [NotCollected EXCEPT !.oldLeafId = old, !.targetId = target]
    /\ prepared = NotPrepared
    /\ generated = NotGenerated

\* collectEntriesForBranchSummary(session, oldLeafId, targetId)
CollectEntries ==
    /\ ~collected.done
    /\ LET r == CollectEntriesForBranchSummary(collected.oldLeafId, collected.targetId)
       IN  collected' = [collected EXCEPT !.done = TRUE,
                                          !.entries = r.entries,
                                          !.commonAncestorId = r.commonAncestorId,
                                          !.queries = r.queries]
    /\ UNCHANGED <<runner, errorListeners, pc, locals, inv, reports, outcome,
                   session, prepared, generated>>

NextCollect == CollectEntries

SpecCollect == InitCollect /\ [][NextCollect]_vars

\* The entries of a branch and a token budget.
InitPrepare ==
    /\ InitRunner(NoKinds, {DEFAULT_TIMEOUT})
    /\ session = NoSession
    /\ collected = NotCollected
    /\ generated = NotGenerated
    /\ \E n \in 0..MaxBranch :
        \E shapes \in [1..n -> EntryShapes], tokenBudget \in Budgets :
            prepared = [NotPrepared EXCEPT !.entries = WithIds(shapes),
                                           !.tokenBudget = tokenBudget]

\* prepareBranchEntries(entries, tokenBudget)
PrepareEntries ==
    /\ ~prepared.done
    /\ LET r == PrepareBranchEntries(prepared.entries, prepared.tokenBudget)
       IN  prepared' = [prepared EXCEPT !.done = TRUE,
                                        !.messages = r.messages,
                                        !.fileOps = r.fileOps,
                                        !.totalTokens = r.totalTokens]
    /\ UNCHANGED <<runner, errorListeners, pc, locals, inv, reports, outcome,
                   session, collected, generated>>

NextPrepare == PrepareEntries

SpecPrepare == InitPrepare /\ [][NextPrepare]_vars

\* An entry of each of the eight types, and a message entry of each role.
KindShapes ==
    {[type |-> "message", role |-> r, toolCalls |-> <<>>, tokens |-> 1] :
        r \in {"user", "toolResult"}}
    \cup {AssistantWith(<<[name |-> "read", path |-> "a.txt"]>>)}
    \cup {[type |-> k, role |-> "none", toolCalls |-> <<>>, tokens |-> 1] :
            k \in {"custom_message", "branch_summary", "compaction"} \cup SilentTypes}

\* Entries of every kind, without a budget or under a budget of 2.
InitExtract ==
    /\ InitRunner(NoKinds, {DEFAULT_TIMEOUT})
    /\ session = NoSession
    /\ collected = NotCollected
    /\ generated = NotGenerated
    /\ \E n \in 0..MaxBranch :
        \E shapes \in [1..n -> KindShapes], tokenBudget \in {0, 2} :
            prepared = [NotPrepared EXCEPT !.entries = WithIds(shapes),
                                           !.tokenBudget = tokenBudget]

SpecExtract == InitExtract /\ [][NextPrepare]_vars

\* The entries of a branch of user messages and of assistant messages with
\* one tool call each (read, write, edit or bash on a path, or read without
\* one), short or long, under no budget, a small one or a large one.
FileOpCalls ==
    {[name |-> "read", path |-> "a.txt"], [name |-> "write", path |-> "b.txt"],
     [name |-> "edit", path |-> "a.txt"], [name |-> "bash", path |-> "b.txt"],
     [name |-> "read", path |-> NoPath]}

FileOpShapes ==
    {[type |-> "message", role |-> "user", toolCalls |-> <<>>, tokens |-> t] :
        t \in TokenEstimates}
    \cup {[type |-> "message", role |-> "assistant", toolCalls |-> <<c>>, tokens |-> t] :
            c \in FileOpCalls, t \in TokenEstimates}

InitFileOps ==
    /\ InitRunner(NoKinds, {DEFAULT_TIMEOUT})
    /\ session = NoSession
    /\ collected = NotCollected
    /\ generated = NotGenerated
    /\ \E n \in 0..MaxBranch :
        \E shapes \in [1..n -> FileOpShapes], tokenBudget \in {0, 2, MaxBudget} :
            prepared = [NotPrepared EXCEPT !.entries = WithIds(shapes),
                                           !.tokenBudget = tokenBudget]

SpecFileOps == InitFileOps /\ [][NextPrepare]_vars

\* generateBranchSummary(entries, options), up to the await of complete()
\* or to the return without it.
Generate ==
    /\ generated.pc = "idle"
    /\ LET r == PrepareBranchEntries(generated.entries,
                    TokenBudget(generated.contextWindow, generated.reserveTokens))
       IN  IF Summarizable(r.messages)
           THEN generated' = [generated EXCEPT !.pc = "await",
                                               !.messages = r.messages,
                                               !.fileOps = r.fileOps,
                                               !.calls = <<Completion(r.messages)>>]
           ELSE generated' = [generated EXCEPT !.pc = "done",
                                               !.messages = r.messages,
                                               !.fileOps = r.fileOps,
                                               !.result = Some(SummaryResult(NoContentSummary))]
    /\ UNCHANGED <<runner, errorListeners, pc, locals, inv, reports, outcome,
                   session, collected, prepared>>

\* complete() resolves, and generateBranchSummary returns.
Complete ==
    /\ generated.pc = "await"
    /\ \E response \in Responses :
        generated' = [generated EXCEPT !.pc = "done",
                                       !.response = Some(response),
                                       !.result = Some(ResultOf(response, generated.fileOps))]
    /\ UNCHANGED <<runner, errorListeners, pc, locals, inv, reports, outcome,
                   session, collected, prepared>>

NextGenerate ==
    \/ Generate
    \/ Complete

GenerateOver(branches, windows, reserves) ==
    /\ InitRunner(NoKinds, {DEFAULT_TIMEOUT})
    /\ session = NoSession
    /\ collected = NotCollected
    /\ prepared = NotPrepared
    /\ \E entries \in branches, contextWindow \in windows, reserveTokens \in reserves :
        generated = [NotGenerated EXCEPT !.entries = entries,
                                         !.contextWindow = contextWindow,
                                         !.reserveTokens = reserveTokens]

\* The content blocks of an assistant message: tool calls of each name on
\* each path, and one without a path.
ToolCallBlocks ==
    {[name |-> n, path |-> Paths[j]] :
        n \in {"read", "write", "edit", "bash"}, j \in DOMAIN Paths}
    \cup {[name |-> "read", path |-> NoPath]}

\* A branch of one assistant message with up to MaxCalls tool calls, for a
\* model of unknown context window.
InitReport ==
    \E n \in 0..MaxCalls :
        \E toolCalls \in [1..n -> ToolCallBlocks] :
            GenerateOver({WithIds(<<AssistantWith(toolCalls)>>)}, {0}, {None})

SpecReport == InitReport /\ [][NextGenerate]_vars

\* model.contextWindow: unknown, or small.
ContextWindows == {0, SmallWindow}

\* options.reserveTokens: left out, or leaving of the small window a budget
\* of MaxBudget, of 1, of 0 or below 0, or the whole default window.
Reserves ==
    {None} \cup {Some(r) : r \in {SmallWindow - MaxBudget, SmallWindow - 1,
                                  SmallWindow, SmallWindow + 1,
                                  DefaultContextWindow}}

\* The entries of the branches summarized: user messages and compactions,
\* short or long, an assistant message that wrote a file, a tool result.
GenerateShapes ==
    {[type |-> "message", role |-> "user", toolCalls |-> <<>>, tokens |-> t] :
        t \in TokenEstimates}
    \cup {[type |-> "compaction", role |-> "none", toolCalls |-> <<>>, tokens |-> t] :
            t \in TokenEstimates}
    \cup {AssistantWith(<<[name |-> "write", path |-> "a.txt"]>>),
          [type |-> "message", role |-> "toolResult", toolCalls |-> <<>>, tokens |-> 1]}

InitGenerate ==
    \E n \in 0..MaxBranch :
        \E shapes \in [1..n -> GenerateShapes] :
            GenerateOver({WithIds(shapes)}, ContextWindows, Reserves)

SpecGenerate == InitGenerate /\ [][NextGenerate]_vars

\* The branch of a user message, an assistant message that wrote a.txt and
\* a user message, of whatever estimates, for a model with a context
\* window of 1000 and 900 reserved tokens.
BranchEstimates == {0, 1, 50, 100, 101}

WrittenBranch(estimates) ==
    WithIds(<<[type |-> "message", role |-> "user", toolCalls |-> <<>>,
               tokens |-> estimates[1]],
              [type |-> "message", role |-> "assistant",
               toolCalls |-> <<[name |-> "write", path |-> "a.txt"]>>,
               tokens |-> estimates[2]],
              [type |-> "message", role |-> "user", toolCalls |-> <<>>,
               tokens |-> estimates[3]]>>)

InitEndToEnd ==
    \E estimates \in [1..3 -> BranchEstimates] :
        GenerateOver({WrittenBranch(estimates)}, {1000}, {Some(900)})

SpecEndToEnd == InitEndToEnd /\ [][NextGenerate]_vars

\* ------------------------------------------------------------ properties
\* The dispatch order the handlers of a kind are to be visited in: hooks in
\* load order, and within a hook the handlers in registration order.
RECURSIVE OrderFrom(_, _)
OrderFrom(kind, h) ==
    IF h > NumHooks
    THEN <<>>
    ELSE [i \in 1..hooks[h][kind] |-> <<h, i>>] \o OrderFrom(kind, h + 1)

DispatchOrder(kind) == OrderFrom(kind, 1)

NoDup(s) == \A i, j \in DOMAIN s : s[i] = s[j] => i = j

InCall(proto) == pc # "idle" /\ call.proto = proto

ReportsOf(n) == {j \in DOMAIN reports : reports[j].n = n}

\* The invocations that resolved to a result, before invocation n.
ResultsBefore(n) ==
    {m \in 1..(n - 1) : inv[m].st = "returned" /\ Truthy(inv[m].out)}

\* The invocations that resolved to replacement messages, before invocation n.
ReplacementsBefore(n) ==
    {m \in ResultsBefore(n) : Truthy(inv[m].out[1].messages)}

Cancelled(n) ==
    /\ inv[n].st = "returned"
    /\ Truthy(inv[n].out)
    /\ inv[n].out[1].cancel

Blocked(n) ==
    /\ inv[n].st = "returned"
    /\ Truthy(inv[n].out)
    /\ inv[n].out[1].block

C2_CancelStopsDispatch ==
    (InCall("emit") /\ call.type = "session") =>
        \A n \in DOMAIN inv :
            Cancelled(n) =>
                /\ n = Len(inv)
                /\ pc = "done"
                /\ outcome = Returned(inv[n].out)

\* Witness of C2: the first of two session handlers cancelled.
C2_Witness ==
    /\ InCall("emit")
    /\ call.type = "session"
    /\ Len(inv) = 1
    /\ Cancelled(1)
    /\ Len(DispatchOrder("session")) = 2

\* C3: in emitToolCall, what a handler throws is thrown to the caller; no
\* error listener is notified and no later handler is invoked.
C3_ToolCallThrowPropagates ==
    InCall("emitToolCall") =>
        /\ reports = <<>>
        /\ \A n \in DOMAIN inv :
            inv[n].st = "threw" =>
                /\ n = Len(inv)
                /\ pc = "done"
                /\ outcome = Threw(HandlerMessage(inv[n].hook, inv[n].idx))

\* Witness of C3: the first of two tool_call handlers threw, with a
\* listener subscribed.
C3_Witness ==
    /\ InCall("emitToolCall")
    /\ Len(inv) = 1
    /\ inv[1].st = "threw"
    /\ Len(DispatchOrder("tool_call")) = 2
    /\ errorListeners # <<>>

\* C4: in emitToolCall, a handler result with a truthy block flag is what
\* emitToolCall returns, at once; when no handler blocks, it returns the
\* last handler result that is not absent, or absent.
C4_BlockStopsDispatch ==
    InCall("emitToolCall") =>
        /\ \A n \in DOMAIN inv :
            Blocked(n) =>
                /\ n = Len(inv)
                /\ pc = "done"
                /\ outcome = Returned(inv[n].out)
        /\ (pc = "done" /\ outcome.kind = "returned"
                /\ \A n \in DOMAIN inv : ~Blocked(n)) =>
            LET got == ResultsBefore(Len(inv) + 1) IN
            outcome.value = IF got = {} THEN None ELSE inv[Max(got)].out

\* Witness of C4: the first of two tool_call handlers blocked.
C4_Witness ==
    /\ InCall("emitToolCall")
    /\ Len(inv) = 1
    /\ Blocked(1)
    /\ Len(DispatchOrder("tool_call")) = 2

\* Witness of the second half of C4: two handlers returned results, none
\* blocked.
C4_WitnessLast ==
    /\ InCall("emitToolCall")
    /\ pc = "done"
    /\ Len(inv) = 2
    /\ ResultsBefore(3) = {1, 2}
    /\ outcome.kind = "returned"

\* The messages emitContext chains to invocation n: the replacement of the
\* latest earlier handler that returned one, or the call's input.
ChainAt(n) ==
    LET got == ReplacementsBefore(n) IN
    IF got = {} THEN call.messages ELSE inv[Max(got)].out[1].messages[1]

\* C5: in emitContext, each handler is invoked with the messages of the
\* latest earlier handler that returned a replacement, or with the input;
\* a handler that returned none, threw or timed out changes nothing.
C5_ContextIsChained ==
    InCall("emitContext") =>
        \A n \in DOMAIN inv : inv[n].input = ChainAt(n)

\* Witness of C5: the first context handler replaced the input by other
\* messages and the second was invoked.
C5_Witness ==
    /\ InCall("emitContext")
    /\ Len(inv) = 2
    /\ ReplacementsBefore(2) = {1}
    /\ inv[2].input # call.messages

\* C6: emitContext returns the final chained messages if and only if some
\* handler returned a replacement, and absent otherwise.
C6_ContextResult ==
    (InCall("emitContext") /\ pc = "done" /\ outcome.kind = "returned") =>
        outcome.value =
            IF ReplacementsBefore(Len(inv) + 1) = {}
            THEN None
            ELSE Some(ChainAt(Len(inv) + 1))

\* Witness of C6: the first handler returned messages, the second returned
\* absent, and the call returned the first handler's messages.
C6_Witness ==
    /\ InCall("emitContext")
    /\ pc = "done"
    /\ Len(inv) = 2
    /\ ReplacementsBefore(3) = {1}
    /\ inv[2].st = "returned"
    /\ inv[2].out = None
    /\ outcome = Returned(inv[1].out[1].messages)

\* C7: in the three protocols the handlers invoked are, in this order, the
\* first handlers of the dispatch order of the emitted kind.
C7_DispatchOrder ==
    pc # "idle" =>
        /\ Len(inv) <= Len(DispatchOrder(call.type))
        /\ \A n \in DOMAIN inv :
            <<inv[n].hook, inv[n].idx>> = DispatchOrder(call.type)[n]

\* Witness of C7: handlers of two hooks were invoked, one after the other.
C7_Witness ==
    /\ pc = "done"
    /\ Len(inv) = 2
    /\ inv[1].hook # inv[2].hook

\* Witness of C7: a hook's two handlers were invoked, one after the other.
C7_WitnessSameHook ==
    /\ pc = "done"
    /\ Len(inv) = 2
    /\ inv[1].hook = inv[2].hook

ShortCircuited ==
    /\ inv # <<>>
    /\ \/ call.proto = "emit" /\ call.type = "session" /\ Cancelled(Len(inv))
       \/ call.proto = "emitToolCall" /\ Blocked(Len(inv))

\* C8 (as stated): when a call is over, every handler of the kind has been
\* invoked, unless a cancel or a block ended it.
C8_AsStated ==
    pc = "done" =>
        \/ Len(inv) = Len(DispatchOrder(call.type))
        \/ ShortCircuited

\* C8 (amended): when a call has returned, every handler of the kind has
\* been invoked, unless a cancel or a block ended it; and a call that left
\* handlers out otherwise ended by throwing: in emitToolCall what the last
\* handler invoked threw, in emit and emitContext what a listener threw.
C8_AllHandlersAttempted ==
    pc = "done" =>
        \/ Len(inv) = Len(DispatchOrder(call.type))
        \/ ShortCircuited
        \/ /\ outcome.kind = "threw"
           /\ IF call.proto = "emitToolCall"
              THEN inv[Len(inv)].st = "threw"
              ELSE reports # <<>> /\ reports[Len(reports)].threw # 0

\* Witness of C8: a call returned after two handlers, the first of which
\* failed.
C8_Witness ==
    /\ pc = "done"
    /\ outcome.kind = "returned"
    /\ Len(inv) = 2
    /\ inv[1].st \in {"threw", "timedout"}

Running == {n \in DOMAIN inv : inv[n].running}

\* C9 (as stated): at most one handler started by the call is executing.
C9_AsStated == Cardinality(Running) <= 1

\* C9 (amended): at most one handler of the call is awaited, the last one
\* invoked: every earlier one has settled or has lost its race against the
\* timeout, and only such a loser may still be executing; in emitToolCall
\* and in emit of a before_compact session event, which have no timeout, at
\* most one handler is executing.
C9_OneHandlerAwaited ==
    /\ \A n \in DOMAIN inv :
        /\ inv[n].st = "pending" => (n = Len(inv) /\ pc = "await")
        /\ inv[n].running => inv[n].st \in {"pending", "timedout"}
    /\ pc = "await" => (inv # <<>> /\ inv[Len(inv)].st = "pending")
    /\ (call.proto = "emitToolCall" \/ IsBeforeCompact(call)) =>
        Cardinality(Running) <= 1

\* Witness of C9: a handler that timed out is still executing when the next
\* one is awaited.
C9_Witness ==
    /\ pc = "await"
    /\ Len(inv) = 2
    /\ inv[1].st = "timedout"
    /\ inv[1].running

\* C10 (as stated): the timer of a handler invocation of emit or emitContext
\* is not armed once dispatch has moved on to the next handler, nor once the
\* call is over.
C10_TimerReleased ==
    \A n \in DOMAIN inv :
        (n < Len(inv) \/ pc = "done") => ~inv[n].timer

\* A handler that had lost its race against the timeout settles in this step.
LateSettle ==
    \E n \in DOMAIN inv :
        /\ inv[n].st = "timedout"
        /\ inv[n].running
        /\ n \in DOMAIN inv'
        /\ ~inv'[n].running

TimeoutIsReported ==
    (InCall("emit") \/ InCall("emitContext")) =>
        \A n \in DOMAIN inv :
            inv[n].st = "timedout" =>
                /\ inv[n].timed
                /\ inv[n].out = None
                /\ Cardinality(ReportsOf(n)) = 1
                /\ \A j \in ReportsOf(n) :
                    /\ reports[j].error =
                        [hookPath |-> HookPath(inv[n].hook),
                         event |-> call.type,
                         error |-> <<"Hook timed out after ", timeout, "ms">>]
                    /\ reports[j].threw = 0 =>
                        /\ reports[j].to = reports[j].subscribed
                        /\ n < Len(DispatchOrder(call.type)) =>
                            /\ Len(inv) > n
                            /\ inv[n + 1].input = inv[n].input
                        /\ n = Len(DispatchOrder(call.type)) =>
                            /\ pc = "done"
                            /\ outcome.kind = "returned"
                    /\ reports[j].threw # 0 =>
                        /\ n = Len(inv)
                        /\ outcome = Threw(ListenerMessage(
                                reports[j].subscribed[reports[j].threw]))

C12_ToolCallNotRaced ==
    InCall("emitToolCall") =>
        \A n \in DOMAIN inv :
            /\ ~inv[n].timed
            /\ ~inv[n].timer
            /\ inv[n].st # "timedout"
            /\ inv[n].running =>
                /\ n = Len(inv)
                /\ pc = "await"
                /\ outcome = Pending

\* Witness of C12: the first of two tool_call handlers has not settled.
C12_Witness ==
    /\ InCall("emitToolCall")
    /\ Len(DispatchOrder("tool_call")) = 2
    /\ Len(inv) = 1
    /\ inv[1].running
    /\ outcome = Pending

TimeoutReports ==
    {j \in DOMAIN reports : reports[j].error.error[1] = "Hook timed out after "}

\* C13: in emit, the invocations of a session event whose reason is
\* before_compact have no timer, never time out and no timeout error is
\* reported; the invocations of every other event have a timer of the
\* configured timeout.
C13_TimeoutWaivedForBeforeCompact ==
    InCall("emit") =>
        IF call.type = "session" /\ call.reason = "before_compact"
        THEN /\ TimeoutReports = {}
             /\ \A n \in DOMAIN inv :
                    /\ ~inv[n].timed
                    /\ ~inv[n].timer
                    /\ inv[n].st # "timedout"
        ELSE /\ \A n \in DOMAIN inv :
                    /\ inv[n].timed
                    /\ inv[n].st = "pending" => inv[n].timer
             /\ \A j \in TimeoutReports :
                    /\ reports[j].error.error[2] = timeout
                    /\ inv[reports[j].n].st = "timedout"

\* Witness of C13: a before_compact handler has not settled and has no timer.
C13_Witness ==
    /\ InCall("emit")
    /\ call.type = "session"
    /\ call.reason = "before_compact"
    /\ pc = "await"
    /\ ~inv[Len(inv)].timer

\* Witness of C13: a handler of a session event of another reason timed out.
C13_WitnessRaced ==
    /\ InCall("emit")
    /\ call.type = "session"
    /\ call.reason # "before_compact"
    /\ TimeoutReports # {}

\* C14: when emit returns without a cancel having ended the dispatch, it
\* returns, for session and tool_result events, the result of the last
\* handler in dispatch order that resolved to one (absent if none did: what
\* threw or timed out does not count), and absent for every other kind.
C14_LastResultWins ==
    (/\ InCall("emit")
     /\ pc = "done"
     /\ outcome.kind = "returned"
     /\ ~(call.type = "session" /\ \E n \in DOMAIN inv : Cancelled(n))) =>
        LET got == ResultsBefore(Len(inv) + 1) IN
        outcome.value =
            IF call.type \in {"session", "tool_result"} /\ got # {}
            THEN inv[Max(got)].out
            ELSE None

\* Witness of C14: two tool_result handlers resolved to results and emit
\* returned the second's.
C14_Witness ==
    /\ InCall("emit")
    /\ call.type = "tool_result"
    /\ pc = "done"
    /\ Len(inv) = 2
    /\ ResultsBefore(3) = {1, 2}
    /\ outcome = Returned(inv[2].out)
    /\ inv[1].out # inv[2].out

\* Witness of C14: a turn_start handler resolved to a result and emit
\* returned absent.
C14_WitnessOtherKind ==
    /\ InCall("emit")
    /\ call.type = "turn_start"
    /\ pc = "done"
    /\ ResultsBefore(Len(inv) + 1) # {}
    /\ outcome = Returned(None)

\* ------------------------------------------------ summarizer: properties
\* The entries on the ancestor path of an entry, the entry included.
RECURSIVE Up(_)
Up(id) ==
    IF id \in DOMAIN session THEN {id} \cup Up(session[id].parentId) ELSE {}

\* One root, and every other entry's parent is an entry.
WellFormed ==
    /\ Cardinality({id \in DOMAIN session : session[id].parentId = NullId}) = 1
    /\ \A id \in DOMAIN session : session[id].parentId # MissingId

Common == Up(collected.oldLeafId) \cap Up(collected.targetId)

\* C15: in a tree with a single root, for existing oldLeafId and targetId,
\* the commonAncestorId returned is on both ancestor paths and no other
\* entry on both is below it, nearer to either leaf.
C15_LowestCommonAncestor ==
    (collected.done /\ WellFormed /\ collected.oldLeafId # NullId) =>
        /\ collected.commonAncestorId \in Common
        /\ \A d \in Common \ {collected.commonAncestorId} :
            collected.commonAncestorId \notin Up(d)

\* Witness of C15: the two leaves fork below the root.
C15_Witness ==
    /\ collected.done
    /\ WellFormed
    /\ collected.commonAncestorId \notin
            {NullId, collected.oldLeafId, collected.targetId}
    /\ session[collected.commonAncestorId].parentId # NullId

\* Witness of C15: the target is an ancestor of the old leaf, below the root.
C15_WitnessOnPath ==
    /\ collected.done
    /\ WellFormed
    /\ collected.oldLeafId # collected.targetId
    /\ collected.commonAncestorId = collected.targetId
    /\ session[collected.targetId].parentId # NullId

\* C16: with an absent oldLeafId the result is no entries and an absent
\* commonAncestorId, whatever the target, and no call was made on the
\* session.
C16_FirstNavigation ==
    (collected.done /\ collected.oldLeafId = NullId) =>
        /\ collected.entries = <<>>
        /\ collected.commonAncestorId = NullId
        /\ collected.queries = 0

\* Witness of C16: a first navigation, to an entry below the root.
C16_Witness ==
    /\ collected.done
    /\ collected.oldLeafId = NullId
    /\ session[collected.targetId].parentId \in DOMAIN session

\* C17: in a well-formed tree, the entries returned are entries of the
\* session, the last is oldLeafId, the parent of the first is the common
\* ancestor, the parent of each other is the one before it, whatever their
\* types; and there is none when oldLeafId is the common ancestor.
C17_ChainToAncestor ==
    (collected.done /\ WellFormed /\ collected.oldLeafId # NullId) =>
        LET es == collected.entries IN
        IF collected.oldLeafId = collected.commonAncestorId
        THEN es = <<>>
        ELSE /\ es # <<>>
             /\ \A k \in DOMAIN es :
                    /\ es[k].id \in DOMAIN session
                    /\ es[k] = session[es[k].id]
                    /\ es[k].id # collected.commonAncestorId
                    /\ es[k].parentId =
                        IF k = 1 THEN collected.commonAncestorId ELSE es[k - 1].id
             /\ es[Len(es)].id = collected.oldLeafId

\* Witness of C17: a chain of three entries with a summary in the middle.
C17_Witness ==
    /\ collected.done
    /\ WellFormed
    /\ Len(collected.entries) = 3
    /\ collected.entries[2].type \in SummaryTypes

\* Witness of C17: the old leaf is the common ancestor.
C17_WitnessEmpty ==
    /\ collected.done
    /\ WellFormed
    /\ collected.oldLeafId # NullId
    /\ collected.oldLeafId = collected.commonAncestorId
    /\ collected.oldLeafId # collected.targetId

\* The entries that carry a message: messages other than tool results,
\* custom messages and the two kinds of summary.
Extractable(entry) ==
    \/ entry.type = "message" /\ entry.role # "toolResult"
    \/ entry.type \in {"custom_message", "branch_summary", "compaction"}

ExtractableIds == {k \in DOMAIN prepared.entries : Extractable(prepared.entries[k])}

RECURSIVE SumTokens(_)
SumTokens(ms) ==
    IF ms = <<>> THEN 0 ELSE Head(ms).tokens + SumTokens(Tail(ms))

AdmittedIds == {prepared.messages[j].entry : j \in DOMAIN prepared.messages}

\* C18: under a positive budget, totalTokens is the sum of the estimates of
\* the messages output and does not exceed the budget, unless the oldest
\* message output is that of a compaction or branch_summary entry and the
\* others add up to less than 90% of the budget (and so to no more than
\* the budget: only that one admission went over it).
C18_WithinBudget ==
    (prepared.done /\ prepared.tokenBudget > 0) =>
        LET ms == prepared.messages
            total == prepared.totalTokens
        IN  /\ total = SumTokens(ms)
            /\ \/ total <= prepared.tokenBudget
               \/ /\ ms # <<>>
                  /\ prepared.entries[ms[1].entry].type \in SummaryTypes
                  /\ total - ms[1].tokens <= prepared.tokenBudget
                  /\ 10 * (total - ms[1].tokens) < 9 * prepared.tokenBudget

\* Witness of C18: a summary was admitted over budget, after another message.
C18_Witness ==
    /\ prepared.done
    /\ prepared.tokenBudget > 0
    /\ prepared.totalTokens > prepared.tokenBudget
    /\ Len(prepared.messages) >= 2

\* Witness of C18: a summary over budget was refused although the total was
\* below the budget, for it was not below 90% of it.
C18_WitnessRefused ==
    /\ prepared.done
    /\ prepared.tokenBudget > 0
    /\ prepared.messages # <<>>
    /\ prepared.totalTokens < prepared.tokenBudget
    /\ 10 * prepared.totalTokens >= 9 * prepared.tokenBudget
    /\ prepared.messages[1].entry > 1
    /\ prepared.entries[prepared.messages[1].entry - 1].type \in SummaryTypes

\* C19: under a budget of 0, the messages output are those of all the
\* entries that carry one, and totalTokens is the sum of their estimates.
C19_NoBudgetAdmitsAll ==
    (prepared.done /\ prepared.tokenBudget = 0) =>
        /\ AdmittedIds = ExtractableIds
        /\ Len(prepared.messages) = Cardinality(ExtractableIds)
        /\ prepared.totalTokens =
            SumTokens(SelectSeq(prepared.entries, Extractable))

\* Witness of C19: under a budget of 0, long messages were admitted and an
\* entry without a message was left out.
C19_Witness ==
    /\ prepared.done
    /\ prepared.tokenBudget = 0
    /\ Len(prepared.entries) = 3
    /\ Len(prepared.messages) = 2
    /\ prepared.totalTokens = 2 * LargeTokens

\* C20: each message output is the message of an entry given, and the
\* messages are in the order of their entries.
C20_ChronologicalOrder ==
    prepared.done =>
        LET ms == prepared.messages IN
        /\ \A j \in DOMAIN ms :
            /\ ms[j].entry \in DOMAIN prepared.entries
            /\ Some(ms[j]) = GetMessageFromEntry(prepared.entries[ms[j].entry])
        /\ \A j, k \in DOMAIN ms : j < k => ms[j].entry < ms[k].entry

\* Witness of C20: the messages of the first and the third entry were
\* output, in this order, the second entry having none.
C20_Witness ==
    /\ prepared.done
    /\ Len(prepared.messages) = 2
    /\ prepared.messages[1].entry = 1
    /\ prepared.messages[2].entry = 3

\* The paths of the tool calls of a name, over the whole branch.
CalledPaths(name) ==
    {c.path : c \in {d \in UNION {Range(e.toolCalls) : e \in Range(generated.entries)} :
                        d.name = name /\ d.path # NoPath}}

Succeeded ==
    /\ generated.pc = "done"
    /\ generated.response # None
    /\ generated.response[1].stopReason \notin {"aborted", "error"}

Ascending(s) ==
    \A j, k \in DOMAIN s :
        j < k => \E a, b \in DOMAIN Paths : a < b /\ Paths[a] = s[j] /\ Paths[b] = s[k]

\* C21: in the summary of a completion that succeeded, the read-files lines
\* are the paths read and neither written nor edited, the modified-files
\* lines are the paths written or edited, no path is in both, and each
\* list is in ascending order, so without a repetition: the lists are a
\* function of the three sets of paths alone.
C21_ReadOnlyAndModifiedDisjoint ==
    (Succeeded /\ generated.calls # <<>>) =>
        LET sections == generated.result[1].summary[1].sections
            touched == CalledPaths("write") \cup CalledPaths("edit")
        IN  /\ Range(sections.readFiles) = CalledPaths("read") \ touched
            /\ Range(sections.modifiedFiles) = touched
            /\ Range(sections.readFiles) \cap Range(sections.modifiedFiles) = {}
            /\ Ascending(sections.readFiles)
            /\ Ascending(sections.modifiedFiles)

\* Witness of C21: a path read and then written, another only read, the
\* first read once more.
C21_Witness ==
    /\ Succeeded
    /\ CalledPaths("read") = {"a.txt", "b.txt"}
    /\ CalledPaths("write") = {"b.txt"}
    /\ Len(generated.entries[1].toolCalls) = 3
    /\ generated.entries[1].toolCalls[1].path = "b.txt"
    /\ generated.result[1].summary[1].sections =
            [readFiles |-> <<"a.txt">>, modifiedFiles |-> <<"b.txt">>]

\* What prepareBranchEntries admits of the branch under the call's budget.
Admitted ==
    PrepareBranchEntries(generated.entries,
        (IF generated.contextWindow = 0 THEN 128000 ELSE generated.contextWindow)
        - (IF generated.reserveTokens = None THEN 16384
           ELSE generated.reserveTokens[1])).messages

\* C22: once generateBranchSummary has passed prepareBranchEntries, it has
\* called complete() never if no message was admitted, and it has then
\* returned the summary "No content to summarize"; and once otherwise.
C22_CompletesOnceOrNever ==
    generated.pc # "idle" =>
        IF Admitted = <<>>
        THEN /\ generated.calls = <<>>
             /\ generated.pc = "done"
             /\ generated.result = Some(SummaryResult(
                    [text |-> "No content to summarize", sections |-> NoSections]))
        ELSE Len(generated.calls) = 1

\* Witness of C22: the budget let none of the messages of the branch in,
\* and the call returned without a completion.
C22_Witness ==
    /\ generated.pc = "done"
    /\ generated.calls = <<>>
    /\ Len(generated.entries) >= 2
    /\ \A j \in DOMAIN generated.entries : generated.entries[j].role = "user"

\* Witness of C22: the call returned after one completion.
C22_WitnessOnce ==
    /\ generated.pc = "done"
    /\ Len(generated.calls) = 1
    /\ Len(generated.messages) >= 2

Fields == {"summary", "aborted", "error"}

\* C23: a call that has returned has one of summary, aborted and error
\* set, and one only; after a completion that stopped with aborted it is
\* aborted, true; after one that stopped with error it is error, with the
\* response's error message or else "Summarization failed"; in both cases
\* complete() was called once.
C23_FailureIsAValue ==
    generated.pc = "done" =>
        /\ generated.result # None
        /\ Cardinality({f \in Fields : generated.result[1][f] # None}) = 1
        /\ generated.response # None =>
            LET response == generated.response[1] IN
            /\ Len(generated.calls) = 1
            /\ response.stopReason = "aborted" =>
                generated.result[1].aborted = Some(TRUE)
            /\ response.stopReason = "error" =>
                generated.result[1].error =
                    IF response.errorMessage = None
                    THEN Some("Summarization failed")
                    ELSE response.errorMessage
            /\ response.stopReason \notin {"aborted", "error"} =>
                generated.result[1].summary # None

\* Witness of C23: the completion of a branch that wrote a file stopped
\* with error, without a message.
C23_Witness ==
    /\ generated.pc = "done"
    /\ generated.response # None
    /\ generated.response[1].stopReason = "error"
    /\ generated.response[1].errorMessage = None
    /\ generated.fileOps.written # {}

\* Witness of C23: the completion was aborted.
C23_WitnessAborted ==
    /\ generated.pc = "done"
    /\ generated.response # None
    /\ generated.response[1].stopReason = "aborted"

\* C24: for the branch of a user message, an assistant message that wrote
\* a.txt and a user message, a window of 1000 and 900 reserved tokens, the
\* messages admitted add up to 100 tokens at most; complete() was not
\* called if none was admitted; and the summary of a completion that
\* succeeded lists a.txt among the modified files.
C24_EndToEnd ==
    generated.pc # "idle" =>
        /\ SumTokens(generated.messages) <= 100
        /\ generated.messages = <<>> => generated.calls = <<>>
        /\ Succeeded =>
            \E j \in DOMAIN generated.result[1].summary[1].sections.modifiedFiles :
                generated.result[1].summary[1].sections.modifiedFiles[j] = "a.txt"

\* Witness of C24: the completion succeeded on the last user message alone,
\* the assistant message being over the budget.
C24_Witness ==
    /\ Succeeded
    /\ generated.contextWindow = 1000
    /\ Len(generated.messages) = 1
    /\ generated.entries[2].tokens = 101

\* Witness of C24: the budget let no message in.
C24_WitnessNone ==
    /\ generated.pc = "done"
    /\ generated.contextWindow = 1000
    /\ generated.messages = <<>>
    /\ generated.calls = <<>>

\* The role of the message of an entry, "none" if it has no message.
ExpectedRole(entry) ==
    CASE entry.type = "message" /\ entry.role # "toolResult" -> entry.role
      [] entry.type = "message" /\ entry.role = "toolResult" -> "none"
      [] entry.type = "custom_message" -> "hookMessage"
      [] entry.type = "branch_summary" -> "branchSummary"
      [] entry.type = "compaction" -> "compactionSummary"
      [] entry.type \in {"thinking_level_change", "model_change", "custom", "label"} ->
            "none"

\* C25: of the entries of the eight types, prepareBranchEntries outputs a
\* message for none that is a tool result, a thinking_level_change, a
\* model_change, a custom or a label entry; the message of a message entry
\* has the entry's role and content, that of a custom_message, a
\* branch_summary and a compaction the roles hookMessage, branchSummary and
\* compactionSummary; and without a budget there is a message of every
\* other entry.
C25_ExtractorByKind ==
    prepared.done =>
        /\ \A j \in DOMAIN prepared.messages :
            LET m == prepared.messages[j]
                entry == prepared.entries[m.entry]
            IN  /\ ExpectedRole(entry) # "none"
                /\ m.role = ExpectedRole(entry)
                /\ m.toolCalls = entry.toolCalls
        /\ prepared.tokenBudget = 0 =>
            AdmittedIds = {k \in DOMAIN prepared.entries :
                            ExpectedRole(prepared.entries[k]) # "none"}

\* Witness of C25: a tool result between a compaction and a custom message,
\* without a budget.
C25_Witness ==
    /\ prepared.done
    /\ prepared.tokenBudget = 0
    /\ Len(prepared.entries) = 3
    /\ prepared.entries[1].type = "compaction"
    /\ prepared.entries[2].role = "toolResult"
    /\ prepared.entries[3].type = "custom_message"
    /\ Len(prepared.messages) = 2

\* Witness of C25: entries of the four types without a message only.
C25_WitnessSilent ==
    /\ prepared.done
    /\ Len(prepared.entries) = 3
    /\ prepared.entries[1].type = "model_change"
    /\ prepared.entries[2].type = "custom"
    /\ prepared.entries[3].type = "thinking_level_change"
    /\ prepared.messages = <<>>

\* What C26 says of a state: the handlers invoked so far were all handed
\* the context of the emission.
OneContext ==
    pc # "idle" => \A n \in DOMAIN inv : inv[n].ctx = ctx

\* What C26 says of a step: an emission that starts takes its context from
\* the runner's UI context and hasUI as they are, an emission in progress
\* keeps its context, and a step that changes the runner's UI context or
\* hasUI changes nothing of the emission.
ContextStep ==
    /\ (pc = "idle" /\ pc' # "idle") => ctx' = [ui |-> uiContext, hasUI |-> hasUI]
    /\ (pc # "idle" /\ pc' # "idle") => ctx' = ctx
    /\ <<uiContext, hasUI>>' # <<uiContext, hasUI>> =>
        UNCHANGED <<pc, locals, inv, reports, outcome>>

\* C26: the runner starts with the inert UI context (select and input
\* resolve to absent, confirm to false) and hasUI false, and keeps them
\* until setUIContext; every emission hands all its handlers one context,
\* made of the runner's UI context and hasUI at its start, whatever
\* setUIContext does while it is in progress.
C26_ContextPerEmission ==
    /\ uiContext = [select |-> None, confirm |-> FALSE, input |-> None]
    /\ hasUI = FALSE
    /\ []OneContext
    /\ [][ContextStep]_vars

\* Witness of C26: both handlers of an emission started before
\* setUIContext were handed the inert context, the second after the call
\* of setUIContext.
C26_Witness ==
    /\ pc # "idle"
    /\ Len(inv) = 2
    /\ inv[1].ctx = NoContext
    /\ inv[2].ctx = NoContext
    /\ inv[1].st = "returned"
    /\ inv[2].st = "pending"
    /\ uiContext = InteractiveUI
    /\ hasUI

\* Witness of C26: an emission started after setUIContext handed its
\* handler the context set.
C26_WitnessSet ==
    /\ pc = "await"
    /\ Len(inv) = 1
    /\ inv[1].ctx = [ui |-> InteractiveUI, hasUI |-> TRUE]

NotifiedWhileSubscribed ==
    \A j \in DOMAIN reports :
        /\ reports[j].threw = 0 => reports[j].to = reports[j].subscribed
        /\ reports[j].threw # 0 =>
            reports[j].to = SubSeq(reports[j].subscribed, 1, reports[j].threw)

\* What C27 says of a step: an error is reported to the listeners
\* subscribed at that moment; a registration adds the one listener, after
\* the others, and a handle removes the one listener, the others staying
\* subscribed in their order; neither touches the emission in progress.
SubscriptionStep ==
    /\ Len(reports') = Len(reports) + 1 =>
        reports'[Len(reports')].subscribed = errorListeners
    /\ errorListeners' # errorListeners =>
        /\ \E l \in ManyListeners :
            \/ /\ ~InSeq(errorListeners, l)
               /\ errorListeners' = Append(errorListeners, l)
            \/ /\ InSeq(errorListeners, l)
               /\ ~InSeq(errorListeners', l)
               /\ \A m \in ManyListeners \ {l} :
                    InSeq(errorListeners', m) = InSeq(errorListeners, m)
               /\ errorListeners' = Remove(errorListeners, l)
        /\ UNCHANGED <<pc, locals, inv, reports, outcome>>

C28_StopsAtMissingParent ==
    (collected.done /\ collected.oldLeafId # NullId) =>
        LET es == collected.entries IN
        /\ \A k \in DOMAIN es :
                /\ GetEntry(es[k].id) = Some(es[k])
                /\ k > 1 => es[k].parentId = es[k - 1].id
        /\ IF collected.oldLeafId = collected.commonAncestorId
           THEN es = <<>>
           ELSE /\ es # <<>>
                /\ es[Len(es)].id = collected.oldLeafId
                /\ \/ es[1].parentId = collected.commonAncestorId
                   \/ GetEntry(es[1].parentId) = None
        /\ IF Common = {}
           THEN /\ collected.commonAncestorId = NullId
                /\ {es[k].id : k \in DOMAIN es} = Up(collected.oldLeafId)
           ELSE collected.commonAncestorId \in Common

\* Witness of C28: the walk ran into a parent id that is no entry, with
\* two entries collected.
C28_Witness ==
    /\ collected.done
    /\ Len(collected.entries) >= 2
    /\ collected.entries[1].parentId = MissingId
    /\ collected.commonAncestorId = NullId

\* Witness of C28: the two leaves are under different roots.
C28_WitnessDisjoint ==
    /\ collected.done
    /\ Len(collected.entries) >= 2
    /\ collected.entries[1].parentId = NullId
    /\ collected.commonAncestorId = NullId
    /\ session[collected.targetId].parentId # MissingId

\* An emit call on an event other than a session event with the reason
\* before_compact, or an emitContext call, that awaits a handler.
AwaitsInTime ==
    /\ pc = "await"
    /\ \/ call.proto = "emitContext"
       \/ /\ call.proto = "emit"
          /\ ~(call.type = "session" /\ call.reason = "before_compact")

\* The call is over: it returned, or it threw what a listener threw.
Over ==
    /\ pc = "done"
    /\ \/ outcome.kind = "returned"
       \/ /\ reports # <<>>
          /\ reports[Len(reports)].threw # 0

\* C29: a call of emit on an event other than a before_compact session
\* event, or of emitContext, that awaits a handler is over in the end,
\* whether or not the handlers settle, when the timers fire; no call
\* invokes more handlers than are registered for the event's type.
C29_EventuallyReturns ==
    /\ [](pc # "idle" => Len(inv) <= Len(DispatchOrder(call.type)))
    /\ AwaitsInTime ~> Over

\* Witness of C29: the call returned after two handlers, neither of which
\* has settled.
C29_Witness ==
    /\ pc = "done"
    /\ outcome.kind = "returned"
    /\ Len(inv) = 2
    /\ Len(DispatchOrder(call.type)) = 2
    /\ \A n \in DOMAIN inv : inv[n].st = "timedout" /\ inv[n].running

\* C30: the messages output are those of the newest entries that carry
\* one: when an entry's message is output, so is the message of every
\* newer entry that carries one, and they stand in the entries' order.
C30_ContiguousSuffix ==
    prepared.done =>
        /\ AdmittedIds \subseteq ExtractableIds
        /\ \A k \in AdmittedIds, j \in ExtractableIds :
                j > k => j \in AdmittedIds
        /\ Cardinality(AdmittedIds) = Len(prepared.messages)

\* Witness of C30: a message was refused on budget, and an older one that
\* would have fitted in what was left of the budget is not output.
C30_Witness ==
    /\ prepared.done
    /\ prepared.messages # <<>>
    /\ \E j \in ExtractableIds \ AdmittedIds :
        /\ prepared.totalTokens + prepared.entries[j].tokens > prepared.tokenBudget
        /\ \E k \in ExtractableIds \ AdmittedIds :
            /\ k < j
            /\ prepared.totalTokens + prepared.entries[k].tokens <=
                    prepared.tokenBudget

\* The newest entry that carries a message and whose message is not
\* output: the one the loop stopped at without admitting it.
Refused ==
    LET left == ExtractableIds \ AdmittedIds IN
    IF left = {} THEN {} ELSE {Max(left)}

\* The paths of the tool calls named `name` of the assistant messages of
\* the entries `ids`.
PathsCalled(ids, name) ==
    {p \in Range(Paths) :
        \E k \in ids :
            /\ prepared.entries[k].type = "message"
            /\ prepared.entries[k].role = "assistant"
            /\ \E j \in DOMAIN prepared.entries[k].toolCalls :
                /\ prepared.entries[k].toolCalls[j].name = name
                /\ prepared.entries[k].toolCalls[j].path = p}

\* C31: the paths of fileOps are those of the read, write and edit tool
\* calls of the assistant messages output and of the message the loop
\* stopped at on budget without admitting it; the messages older than
\* that one contribute none.
C31_FileOpsIncludeStopMessage ==
    prepared.done =>
        LET examined == AdmittedIds \cup Refused IN
        /\ prepared.fileOps.read = PathsCalled(examined, "read")
        /\ prepared.fileOps.written = PathsCalled(examined, "write")
        /\ prepared.fileOps.edited = PathsCalled(examined, "edit")

\* Witness of C31: the loop stopped at an assistant message that read
\* a.txt, which is recorded though the message is not output, and the
\* older assistant message that wrote b.txt left no trace.
C31_Witness ==
    /\ prepared.done
    /\ prepared.messages # <<>>
    /\ prepared.fileOps = [read |-> {"a.txt"}, written |-> {}, edited |-> {}]
    /\ PathsCalled(AdmittedIds, "read") = {}
    /\ PathsCalled(DOMAIN prepared.entries, "write") = {"b.txt"}

\* The reserve of the call is no smaller than the model's context window,
\* or than 128000 when the model's window is 0.
NothingLeft ==
    LET window == IF generated.contextWindow = 0 THEN 128000
                  ELSE generated.contextWindow
        reserve == IF generated.reserveTokens = None THEN 16384
                   ELSE generated.reserveTokens[1]
    IN  reserve >= window

\* C32: when the reserve leaves nothing of the context window, the
\* messages prepared are those of all the entries that carry one, in the
\* entries' order, whatever their estimates; and complete() has been called
\* once if there is one, never if there is none.
C32_NonPositiveBudgetIsNoLimit ==
    (generated.pc # "idle" /\ NothingLeft) =>
        LET carrying == SelectSeq(generated.entries, Extractable) IN
        /\ Len(generated.messages) = Len(carrying)
        /\ \A j \in DOMAIN carrying :
                generated.messages[j].entry = carrying[j].id
        /\ Len(generated.calls) = IF carrying = <<>> THEN 0 ELSE 1

\* Witness of C32: the reserve is larger than the context window, and
\* three long messages, more than the window holds, went to complete().
C32_Witness ==
    /\ generated.pc = "done"
    /\ generated.contextWindow = SmallWindow
    /\ generated.reserveTokens = Some(SmallWindow + 1)
    /\ Len(generated.messages) = 3
    /\ \A j \in DOMAIN generated.messages :
            generated.messages[j].tokens = LargeTokens
    /\ 3 * LargeTokens > SmallWindow
    /\ Len(generated.calls) = 1

\* Witness of C32: the model's window is unknown and the reserve is the
\* whole fallback window.
C32_WitnessFallback ==
    /\ generated.pc = "done"
    /\ generated.contextWindow = 0
    /\ generated.reserveTokens = Some(128000)
    /\ Len(generated.messages) >= 2
    /\ Len(generated.calls) = 1

\* C33: in emit and emitContext, when a listener threw while it was
\* notified of a handler's failure, the call is over and threw what the
\* listener threw; the listeners subscribed after that one were not
\* notified of the failure, no later failure was reported, and no handler
\* after the one that failed has been invoked.
C33_ListenerThrowPropagates ==
    (InCall("emit") \/ InCall("emitContext")) =>
        \A j \in DOMAIN reports :
            reports[j].threw # 0 =>
                LET listener == reports[j].subscribed[reports[j].threw] IN
                /\ pc = "done"
                /\ outcome = [kind |-> "threw", value |-> None,
                              error |-> <<"listener error", listener>>]
                /\ j = Len(reports)
                /\ Len(reports[j].to) = reports[j].threw
                /\ \A k \in DOMAIN reports[j].subscribed :
                        InSeq(reports[j].to, reports[j].subscribed[k])
                            <=> k <= reports[j].threw
                /\ Len(inv) = reports[j].n
                /\ inv[Len(inv)].st \in {"threw", "timedout"}

\* Witness of C33: in emitContext the first of two handlers threw, the
\* first of two listeners threw on it: the second listener and the second
\* handler were skipped.
C33_Witness ==
    /\ InCall("emitContext")
    /\ Len(DispatchOrder(call.type)) = 2
    /\ Len(inv) = 1
    /\ inv[1].st = "threw"
    /\ Len(reports) = 1
    /\ Len(reports[1].subscribed) = 2
    /\ reports[1].threw = 1
    /\ outcome.kind = "threw"

\* Witness of C33: in emit the first of two handlers timed out and the
\* listener threw on the report of the timeout.
C33_WitnessTimeout ==
    /\ InCall("emit")
    /\ Len(DispatchOrder(call.type)) = 2
    /\ Len(inv) = 1
    /\ inv[1].st = "timedout"
    /\ Len(reports) = 1
    /\ reports[1].threw # 0
    /\ outcome.kind = "threw"

====
